---- MODULE Spec2Model ----
(***************************************************************************)
(* A model of the Obsidian Wikidata importer: the property extraction of   *)
(* Entity.getProperties (src/src/wikidata.ts) and the merge of             *)
(* syncEntityToFile (src/main.ts).                                         *)
(*                                                                         *)
(* A JavaScript string is a sequence of one-character strings, so that the *)
(* regular expressions and String.replace calls of the source are computed *)
(* character by character.                                                 *)
(***************************************************************************)
EXTENDS Integers, Sequences, FiniteSets, TLC

VARIABLES
    \* ---- Entity.getProperties, the forEach over the result rows ----
    rows,        \* json.results.bindings
    opts,        \* the GetPropertiesOptions argument
    idx,         \* number of rows the forEach has processed
    ret,         \* the Properties mapping under construction
    key,         \* the callback's local `key` for the last processed row
    toAdd,       \* the callback's local `toAdd` for the last processed row
    outcome,     \* which return of the callback the last row took
    \* ---- the import flows of main.ts ----
    settings,    \* plugin.settings
    doc,         \* per file, the frontmatter processFrontMatter reads and writes
    cache,       \* per file, metadataCache.getFileCache(file)?.frontmatter
    ops,         \* per import operation, its position and its locals
    hist,        \* the runs of the processFrontMatter callback, oldest first
    \* ---- Entity.buildLink ----
    blArgs,      \* the arguments link, label and id of the call
    blLabel,     \* the parameter `label`, reassigned at line 235
    blLink,      \* the parameter `link`, reassigned at line 236
    blPc,        \* the position in buildLink
    \* ---- Entity.search ----
    seQuery,     \* the argument query
    seLang,      \* opts.language, the list of the codes its text holds
    seRequests,  \* the requests sent to the search endpoint, oldest first
    seResult,    \* what the call settled with
    sePc         \* the position in search

exVars == <<rows, opts, idx, ret, key, toAdd, outcome>>

imVars == <<settings, doc, cache, ops, hist>>

blVars == <<blArgs, blLabel, blLink, blPc>>

seVars == <<seQuery, seLang, seRequests, seResult, sePc>>

vars == <<rows, opts, idx, ret, key, toAdd, outcome, settings, doc, cache, ops, hist,
          blArgs, blLabel, blLink, blPc,
          seQuery, seLang, seRequests, seResult, sePc>>

-----------------------------------------------------------------------------
(* Bounds *)

MaxRows == 2

-----------------------------------------------------------------------------
(* Characters *)

Digits == {"0", "1", "2", "3", "4", "5", "6", "7", "8", "9"}

Letters ==
    {"a", "b", "c", "d", "e", "f", "g", "h", "i", "j", "k", "l", "m",
     "n", "o", "p", "q", "r", "s", "t", "u", "v", "w", "x", "y", "z",
     "A", "B", "C", "D", "E", "F", "G", "H", "I", "J", "K", "L", "M",
     "N", "O", "P", "Q", "R", "S", "T", "U", "V", "W", "X", "Y", "Z"}

WordChars == Letters \cup Digits \cup {"_"}

WhiteSpace == {" "}

DigitValue(c) ==
    CASE c = "0" -> 0 [] c = "1" -> 1 [] c = "2" -> 2 [] c = "3" -> 3
      [] c = "4" -> 4 [] c = "5" -> 5 [] c = "6" -> 6 [] c = "7" -> 7
      [] c = "8" -> 8 [] c = "9" -> 9

-----------------------------------------------------------------------------
(* JavaScript values: string | number | boolean | null | undefined | array.*)
(* One record shape for all of them, so that any two values compare.       *)
(* A number is n * 10^e with n not divisible by 10 (0 is n = 0, e = 0).    *)

Str(s) == [t |-> "string", s |-> s, n |-> 0, e |-> 0, l |-> <<>>]

Num(n, e) == [t |-> "number", s |-> <<>>, n |-> n, e |-> e, l |-> <<>>]

NaN == [t |-> "NaN", s |-> <<>>, n |-> 0, e |-> 0, l |-> <<>>]

Bool(b) == [t |-> "boolean", s |-> <<>>, n |-> IF b THEN 1 ELSE 0, e |-> 0, l |-> <<>>]

Null == [t |-> "null", s |-> <<>>, n |-> 0, e |-> 0, l |-> <<>>]

Undefined == [t |-> "undefined", s |-> <<>>, n |-> 0, e |-> 0, l |-> <<>>]

Arr(l) == [t |-> "array", s |-> <<>>, n |-> 0, e |-> 0, l |-> l]

\* JavaScript ToBoolean
Truthy(v) ==
    CASE v.t = "string" -> v.s # <<>>
      [] v.t = "number" -> v.n # 0
      [] v.t = "boolean" -> v.n = 1
      [] v.t = "array" -> TRUE
      [] OTHER -> FALSE

-----------------------------------------------------------------------------
(* String.prototype.replace with a global regular expression that matches  *)
(* a literal text, and a replacement STRING: in it $$ stands for $, $& for *)
(* the match, $` for the text before the match and $' for the text after.  *)

RECURSIVE Expand(_, _, _, _, _)
Expand(rep, j, m, pre, post) ==
    IF j > Len(rep) THEN <<>>
    ELSE IF rep[j] = "$" /\ j < Len(rep) /\ rep[j + 1] = "$"
        THEN <<"$">> \o Expand(rep, j + 2, m, pre, post)
    ELSE IF rep[j] = "$" /\ j < Len(rep) /\ rep[j + 1] = "&"
        THEN m \o Expand(rep, j + 2, m, pre, post)
    ELSE IF rep[j] = "$" /\ j < Len(rep) /\ rep[j + 1] = "`"
        THEN pre \o Expand(rep, j + 2, m, pre, post)
    ELSE IF rep[j] = "$" /\ j < Len(rep) /\ rep[j + 1] = "'"
        THEN post \o Expand(rep, j + 2, m, pre, post)
    ELSE <<rep[j]>> \o Expand(rep, j + 1, m, pre, post)

IsMatchAt(str, pat, i) ==
    /\ i + Len(pat) - 1 <= Len(str)
    /\ SubSeq(str, i, i + Len(pat) - 1) = pat

RECURSIVE ReplaceFrom(_, _, _, _)
ReplaceFrom(str, pat, rep, i) ==
    IF i > Len(str) THEN <<>>
    ELSE IF IsMatchAt(str, pat, i)
        THEN Expand(rep, 1, pat, SubSeq(str, 1, i - 1),
                    SubSeq(str, i + Len(pat), Len(str)))
             \o ReplaceFrom(str, pat, rep, i + Len(pat))
    ELSE <<str[i]>> \o ReplaceFrom(str, pat, rep, i + 1)

ReplaceAll(str, pat, rep) == ReplaceFrom(str, pat, rep, 1)

\* str.replace(/[^\p{L}]/gu, rep): every single non-letter character
RECURSIVE ReplaceNonLettersFrom(_, _, _)
ReplaceNonLettersFrom(str, rep, i) ==
    IF i > Len(str) THEN <<>>
    ELSE IF str[i] \notin Letters
        THEN Expand(rep, 1, <<str[i]>>, SubSeq(str, 1, i - 1),
                    SubSeq(str, i + 1, Len(str)))
             \o ReplaceNonLettersFrom(str, rep, i + 1)
    ELSE <<str[i]>> \o ReplaceNonLettersFrom(str, rep, i + 1)


\* the regular expression with a +: a run of non-letters replaced at once
RECURSIVE ReplaceNonLetterRunsFrom(_, _, _)
ReplaceNonLetterRunsFrom(str, rep, i) ==
    IF i > Len(str) THEN <<>>
    ELSE IF str[i] \in Letters
        THEN <<str[i]>> \o ReplaceNonLetterRunsFrom(str, rep, i + 1)
    ELSE IF i > 1 /\ str[i - 1] \notin Letters
        THEN ReplaceNonLetterRunsFrom(str, rep, i + 1)
    ELSE rep \o ReplaceNonLetterRunsFrom(str, rep, i + 1)

ReplaceNonLetters_Runs(str, rep) == ReplaceNonLetterRunsFrom(str, rep, 1)

ReplaceNonLetters(str, rep) == ReplaceNonLettersFrom(str, rep, 1)

StartsWith(str, prefix) ==
    /\ Len(prefix) <= Len(str)
    /\ SubSeq(str, 1, Len(prefix)) = prefix

\* key.match(/\bID\b/)
MatchesWordID(str) ==
    \E i \in 1..(Len(str) - 1) :
        /\ str[i] = "I"
        /\ str[i + 1] = "D"
        /\ (i = 1 \/ str[i - 1] \notin WordChars)
        /\ (i + 1 = Len(str) \/ str[i + 2] \notin WordChars)

\* the start of the match of /\d+$/: the maximal trailing run of digits
RECURSIVE TrailingDigitsStart(_, _)
TrailingDigitsStart(str, i) ==
    IF i >= 1 /\ str[i] \in Digits THEN TrailingDigitsStart(str, i - 1)
    ELSE i + 1

\* value.match(/\d+$/)[0]
TrailingDigits(str) == SubSeq(str, TrailingDigitsStart(str, Len(str)), Len(str))

\* value.match(/Q\d+$/)
MatchesQDigits(str) ==
    LET d == TrailingDigitsStart(str, Len(str))
    IN /\ d <= Len(str)
       /\ d > 1
       /\ str[d - 1] = "Q"

-----------------------------------------------------------------------------
(* parseInt and parseFloat of ECMAScript, on decimal and hexadecimal       *)
(* numerals (the text "Infinity" is not in the modelled alphabet).         *)

RECURSIVE Norm(_, _)
Norm(n, e) ==
    IF n = 0 THEN Num(0, 0)
    ELSE IF n % 10 = 0 THEN Norm(n \div 10, e + 1)
    ELSE Num(n, e)

RECURSIVE SkipWhiteSpace(_, _)
SkipWhiteSpace(str, i) ==
    IF i <= Len(str) /\ str[i] \in WhiteSpace THEN SkipWhiteSpace(str, i + 1)
    ELSE i

\* the first index from i on that holds no decimal digit
RECURSIVE DigitRunEnd(_, _)
DigitRunEnd(str, i) ==
    IF i <= Len(str) /\ str[i] \in Digits THEN DigitRunEnd(str, i + 1)
    ELSE i

\* the number written by the digits str[i..j-1], appended to acc
RECURSIVE DigitsValue(_, _, _, _)
DigitsValue(str, i, j, acc) ==
    IF i >= j THEN acc
    ELSE DigitsValue(str, i + 1, j, 10 * acc + DigitValue(str[i]))

HexDigits == Digits \cup {"a", "b", "c", "d", "e", "f", "A", "B", "C", "D", "E", "F"}

HexValue(c) ==
    CASE c \in Digits -> DigitValue(c)
      [] c \in {"a", "A"} -> 10 [] c \in {"b", "B"} -> 11
      [] c \in {"c", "C"} -> 12 [] c \in {"d", "D"} -> 13
      [] c \in {"e", "E"} -> 14 [] c \in {"f", "F"} -> 15

RECURSIVE HexRunEnd(_, _)
HexRunEnd(str, i) ==
    IF i <= Len(str) /\ str[i] \in HexDigits THEN HexRunEnd(str, i + 1)
    ELSE i

RECURSIVE HexDigitsValue(_, _, _, _)
HexDigitsValue(str, i, j, acc) ==
    IF i >= j THEN acc
    ELSE HexDigitsValue(str, i + 1, j, 16 * acc + HexValue(str[i]))

HasSignAt(str, i) == i <= Len(str) /\ str[i] \in {"+", "-"}

SignAt(str, i) == IF i <= Len(str) /\ str[i] = "-" THEN -1 ELSE 1

\* parseInt(str), radix undefined
ParseInt(str) ==
    LET p == SkipWhiteSpace(str, 1)
        q == IF HasSignAt(str, p) THEN p + 1 ELSE p
        hex == q + 1 <= Len(str) /\ str[q] = "0" /\ str[q + 1] \in {"x", "X"}
    IN IF hex
       THEN LET r == HexRunEnd(str, q + 2)
            IN IF r = q + 2 THEN NaN
               ELSE Norm(SignAt(str, p) * HexDigitsValue(str, q + 2, r, 0), 0)
       ELSE LET r == DigitRunEnd(str, q)
            IN IF r = q THEN NaN
               ELSE Norm(SignAt(str, p) * DigitsValue(str, q, r, 0), 0)

\* parseFloat(str)
ParseFloat(str) ==
    LET p == SkipWhiteSpace(str, 1)
        q == IF HasSignAt(str, p) THEN p + 1 ELSE p
        r == DigitRunEnd(str, q)                      \* end of the integer part
        dot == r <= Len(str) /\ str[r] = "."
        f == IF dot THEN DigitRunEnd(str, r + 1) ELSE r \* end of the fraction
        fracLen == IF dot THEN f - (r + 1) ELSE 0
        hasExp == /\ f <= Len(str)
                  /\ str[f] \in {"e", "E"}
                  /\ LET x == IF HasSignAt(str, f + 1) THEN f + 2 ELSE f + 1
                     IN DigitRunEnd(str, x) > x
        x0 == IF HasSignAt(str, f + 1) THEN f + 2 ELSE f + 1
        exp == IF hasExp
               THEN SignAt(str, f + 1) * DigitsValue(str, x0, DigitRunEnd(str, x0), 0)
               ELSE 0
        mant == DigitsValue(str, r + 1, f, DigitsValue(str, q, r, 0))
    IN IF (r - q) + fracLen = 0 THEN NaN
       ELSE Norm(SignAt(str, p) * (IF dot THEN mant ELSE DigitsValue(str, q, r, 0)),
                 exp - fracLen)

-----------------------------------------------------------------------------
(* Entity.replaceCharacters and Entity.buildLink *)

\* every searchString character of the call sites is a punctuation mark, for
\* which new RegExp("\\" + searchChar, "g") matches that character literally
RECURSIVE ReplaceCharactersFrom(_, _, _, _)
ReplaceCharactersFrom(result, searchString, replaceString, i) ==
    IF i > Len(searchString) THEN result
    ELSE LET searchChar == searchString[i]
             \* replaceString[Math.min(i, replaceString.length - 1)], 0-based
             k == IF i - 1 < Len(replaceString) - 1 THEN i - 1
                  ELSE Len(replaceString) - 1
             replaceChar == <<replaceString[k + 1]>>
         IN ReplaceCharactersFrom(
                ReplaceAll(result, <<searchChar>>, replaceChar),
                searchString, replaceString, i + 1)


\* the regular expressions built without the g flag: first occurrence only
RECURSIVE ReplaceFirstFrom(_, _, _, _)
ReplaceFirstFrom(str, pat, rep, i) ==
    IF i > Len(str) THEN <<>>
    ELSE IF IsMatchAt(str, pat, i)
        THEN rep \o SubSeq(str, i + Len(pat), Len(str))
    ELSE <<str[i]>> \o ReplaceFirstFrom(str, pat, rep, i + 1)

RECURSIVE ReplaceCharactersFirstFrom(_, _, _, _)
ReplaceCharactersFirstFrom(result, searchString, replaceString, i) ==
    IF i > Len(searchString) THEN result
    ELSE ReplaceCharactersFirstFrom(
             ReplaceFirstFrom(result, <<searchString[i]>>, replaceString, 1),
             searchString, replaceString, i + 1)

replaceCharacters_FirstOnly(str, searchString, replaceString) ==
    ReplaceCharactersFirstFrom(str, searchString, replaceString, 1)

replaceCharacters(str, searchString, replaceString) ==
    ReplaceCharactersFrom(str, searchString, replaceString, 1)

IllegalChars == <<"*", "/", ":", "#", "?", "<", ">", "\"">>

LabelPlaceholder == <<"$", "{", "l", "a", "b", "e", "l", "}">>

IdPlaceholder == <<"$", "{", "i", "d", "}">>

\* line 236: the two chained replace calls
substitutePlaceholders(link, label, id) ==
    ReplaceAll(ReplaceAll(link, LabelPlaceholder, label), IdPlaceholder, id)

buildLink(link, label, id) ==
    substitutePlaceholders(link, replaceCharacters(label, IllegalChars, <<"_">>), id)

\* the state of buildLink while another part of the program is examined
LinkIdle ==
    /\ blArgs = <<>>
    /\ blLabel = <<>>
    /\ blLink = <<>>
    /\ blPc = "none"

-----------------------------------------------------------------------------
(* Entity.fromJson and the outcome of Entity.search *)

\* json.id, json.label, ...: a field the payload lacks reads as undefined
JsonGet(json, field) == IF field \in DOMAIN json THEN json[field] ELSE Undefined

\* new Entity(json.id, json.label, json.description)
fromJson(json) ==
    [id |-> JsonGet(json, "id"), label |-> JsonGet(json, "label"),
     description |-> JsonGet(json, "description")]

\* json.search.map(Entity.fromJson)
MapFromJson(search) == [i \in 1..Len(search) |-> fromJson(search[i])]

Returned(list) == [ok |-> TRUE, list |-> list, error |-> "none"]

Threw(error) == [ok |-> FALSE, list |-> <<>>, error |-> error]

\* the state of search while another part of the program is examined
SearchIdle ==
    /\ seQuery = Undefined
    /\ seLang = <<>>
    /\ seRequests = <<>>
    /\ seResult = Threw("none")
    /\ sePc = "none"

-----------------------------------------------------------------------------
(* The datatype tags *)

XsdString == "http://www.w3.org/2001/XMLSchema#string"

RdfLangString == "http://www.w3.org/1999/02/22-rdf-syntax-ns#langString"

XsdInteger == "http://www.w3.org/2001/XMLSchema#integer"

XsdDecimal == "http://www.w3.org/2001/XMLSchema#decimal"

XsdDateTime == "http://www.w3.org/2001/XMLSchema#dateTime"

GeoWkt == "http://www.opengis.net/ont/geosparql#wktLiteral"

\* the value of `type` when the row has no valueType cell (null)
NoType == "null"

isString(type) ==
    IF type = NoType THEN FALSE
    ELSE type = XsdString \/ type = RdfLangString

isInteger(type) == IF type = NoType THEN FALSE ELSE type = XsdInteger

isDecimal(type) == IF type = NoType THEN FALSE ELSE type = XsdDecimal

isDate(type) == IF type = NoType THEN FALSE ELSE type = XsdDateTime

-----------------------------------------------------------------------------
(* Entity.getProperties: the callback of results.forEach *)

CategoryPrefix == <<"C", "a", "t", "e", "g", "o", "r", "y", ":">>

WikipediaPrefix == <<"W", "i", "k", "i", "p", "e", "d", "i", "a", ":">>


\* a first occurrence that creates the list and forgets the value
Accumulate_EmptyOnCreate(m, k, v) ==
    IF k \in DOMAIN m THEN [m EXCEPT ![k] = Append(@, v)]
    ELSE m @@ (k :> <<>>)


\* every row starting the list of its key anew
Accumulate_Replace(m, k, v) ==
    IF k \in DOMAIN m THEN [m EXCEPT ![k] = <<v>>]
    ELSE m @@ (k :> <<v>>)

\* ret[key] ? ret[key].push(toAdd) : ret[key] = [toAdd]
Accumulate(m, k, v) ==
    IF k \in DOMAIN m THEN [m EXCEPT ![k] = Append(@, v)]
    ELSE m @@ (k :> <<v>>)


\* the datatype rules tried before the normalized value
ResolveValue_TypeFirst(r, o) ==
    IF isDate(r.valueType) THEN Str(r.value)
    ELSE IF isDecimal(r.valueType) THEN ParseFloat(r.value)
    ELSE IF isInteger(r.valueType) THEN ParseInt(r.value)
    ELSE IF isString(r.valueType) THEN Str(r.value)
    ELSE IF Truthy(r.normalizedValue) THEN r.normalizedValue
    ELSE IF MatchesQDigits(r.value) /\ Truthy(r.valueLabel)
        THEN LET id == TrailingDigits(r.value)
                 label == buildLink(o.internalLinkPrefix, r.valueLabel.s, id)
             IN Str(<<"[", "[">> \o label \o <<"]", "]">>)
    ELSE r.valueLabel

\* the link built by concatenating the template and the label, as before
\* the template had placeholders
ResolveValue_ConcatLink(r, o) ==
    IF Truthy(r.normalizedValue) THEN r.normalizedValue
    ELSE IF isDate(r.valueType) THEN Str(r.value)
    ELSE IF isDecimal(r.valueType) THEN ParseFloat(r.value)
    ELSE IF isInteger(r.valueType) THEN ParseInt(r.value)
    ELSE IF isString(r.valueType) THEN Str(r.value)
    ELSE IF MatchesQDigits(r.value) /\ Truthy(r.valueLabel)
        THEN Str(<<"[", "[">> \o o.internalLinkPrefix \o r.valueLabel.s \o <<"]", "]">>)
    ELSE r.valueLabel

\* the value chosen by the if/else-if chain of lines 315-335
ResolveValue(r, o) ==
    IF Truthy(r.normalizedValue) THEN r.normalizedValue
    ELSE IF isDate(r.valueType) THEN Str(r.value)
    ELSE IF isDecimal(r.valueType) THEN ParseFloat(r.value)
    ELSE IF isInteger(r.valueType) THEN ParseInt(r.value)
    ELSE IF isString(r.valueType) THEN Str(r.value)
    ELSE IF MatchesQDigits(r.value) /\ Truthy(r.valueLabel)
        THEN LET id == TrailingDigits(r.value)
                 label == buildLink(o.internalLinkPrefix, r.valueLabel.s, id)
             IN Str(<<"[", "[">> \o label \o <<"]", "]">>)
    ELSE r.valueLabel

\* key after the optional rewrite of lines 311-313
RewriteKey(k, o) ==
    IF Len(o.spaceReplacement) > 0 THEN ReplaceNonLetters(k, o.spaceReplacement)
    ELSE k

\* one call of the callback on row r with the mapping m built so far
ProcessRow(r, o, m) ==
    IF o.ignoreCategories /\ Truthy(r.valueLabel)
       /\ StartsWith(r.valueLabel.s, CategoryPrefix)
    THEN [ret |-> m, key |-> r.propertyLabel, toAdd |-> r.valueLabel,
          outcome |-> "category"]
    ELSE IF o.ignoreWikipediaPages /\ Truthy(r.valueLabel)
            /\ StartsWith(r.valueLabel.s, WikipediaPrefix)
    THEN [ret |-> m, key |-> r.propertyLabel, toAdd |-> r.valueLabel,
          outcome |-> "wikipedia"]
    ELSE IF o.ignoreIDs /\ Truthy(r.valueLabel) /\ MatchesWordID(r.propertyLabel)
    THEN [ret |-> m, key |-> r.propertyLabel, toAdd |-> r.valueLabel,
          outcome |-> "id"]
    ELSE LET k == RewriteKey(r.propertyLabel, o)
             v == ResolveValue(r, o)
         IN IF v = Null
            THEN [ret |-> m, key |-> k, toAdd |-> v, outcome |-> "null"]
            ELSE [ret |-> Accumulate(m, k, v), key |-> k, toAdd |-> v,
                  outcome |-> "added"]

\* the whole forEach, as the import flows use it
RECURSIVE ForEachFrom(_, _, _, _)
ForEachFrom(rs, o, m, i) ==
    IF i > Len(rs) THEN m
    ELSE ForEachFrom(rs, o, ProcessRow(rs[i], o, m).ret, i + 1)

GetProperties(rs, o) == ForEachFrom(rs, o, <<>>, 1)

-----------------------------------------------------------------------------
(* The rows and options the extraction is checked on *)

Row(pl, v, vl, vt, nv) ==
    [propertyLabel |-> pl, value |-> v, valueLabel |-> vl, valueType |-> vt,
     normalizedValue |-> nv]

InstanceOf == <<"i", "n", "s", "t", "a", "n", "c", "e", " ", "o", "f">>

EntityQ5 == <<"e", "n", "t", "i", "t", "y", "/", "Q", "5">>

Human == <<"h", "u", "m", "a", "n">>

ImdbId == <<"I", "M", "D", "b", " ", "I", "D">>

RowPool ==
    { Row(InstanceOf, EntityQ5, Str(Human), NoType, Null),
      Row(<<"p">>, <<"7">>, Str(<<"7">>), XsdInteger, Null),
      Row(<<"p">>, <<"1", ".", "5", "0">>, Str(<<"1", ".", "5">>), XsdDecimal, Null),
      Row(<<"p">>, <<"2", "0", "2", "0", "-", "0", "1", "-", "0", "1", "T", "0", "0", ":", "0", "0", ":", "0", "0", "Z">>, Str(<<"1", " ", "J", "a", "n", "u", "a", "r", "y", " ", "2", "0", "2", "0">>),
          XsdDateTime, Null),
      Row(<<"p">>, <<"x">>, Str(<<"x">>), RdfLangString, Null),
      Row(<<"p">>, <<"5">>, Str(<<"5">>), XsdDecimal, Str(<<"v", "a", "l", "u", "e", "/", "a", "b", "1", "2">>)),
      Row(<<"p">>, <<"c", "o", "m", "m", "o", "n", "s", "/", "x">>, Null, NoType, Null),
      Row(<<"p">>, <<"e", "n", "t", "i", "t", "y", "/", "Q", "9">>, Str(<<"C", "a", "t", "e", "g", "o", "r", "y", ":", "X">>), NoType, Null),
      Row(<<"p">>, <<"e", "n", "t", "i", "t", "y", "/", "Q", "8">>, Str(<<"W", "i", "k", "i", "p", "e", "d", "i", "a", ":", "Y">>), NoType, Null),
      Row(ImdbId, <<"t", "t", "1">>, Str(<<"t", "t", "1">>), XsdString, Null),
      Row(ImdbId, <<"t", "t", "1">>, Null, XsdString, Null),
      Row(<<"a", "-", "b">>, <<"0">>, Str(<<"0">>), XsdInteger, Null),
      Row(<<"a", " ", "b">>, <<"y">>, Str(<<"y">>), XsdString, Null),
      Row(<<"a", " ", " ", "b">>, <<"-", "1", "2", "a", "b", "c">>, Str(<<"-", "1", "2", "a", "b", "c">>), XsdInteger, Null),
      Row(<<"p">>, <<"P", "(", "1", ")">>, Str(<<"P", "(", "1", ")">>), GeoWkt, Null),
      Row(<<"p">>, <<"e", "n", "t", "i", "t", "y", "/", "Q", "4", "2">>, Str(<<"A", "/", "B", ":", "C">>), NoType, Null),
      Row(<<"p">>, <<"a", "b", "c">>, Str(<<"a", "b", "c">>), XsdInteger, Null) }

RowSeqs == UNION {[1..n -> RowPool] : n \in 0..MaxRows}

DbLabel == <<"d", "b", "/", "$", "{", "l", "a", "b", "e", "l", "}">>

DbLabelId == <<"d", "b", "/", "$", "{", "l", "a", "b", "e", "l", "}", "-", "$", "{", "i", "d", "}">>

OptsPool ==
    [ignoreCategories : BOOLEAN, ignoreWikipediaPages : BOOLEAN,
     ignoreIDs : BOOLEAN, spaceReplacement : {<<>>, <<"_">>},
     internalLinkPrefix : {DbLabel, DbLabelId}]

-----------------------------------------------------------------------------
(* The import flows: importProperties, onChooseSuggestion, syncEntityToFile *)

Files == {"a.md", "b.md"}

Ops == {"op1", "op2"}

Get(fm, k) == IF k \in DOMAIN fm THEN fm[k] ELSE Undefined

DefaultEntityIdKey == <<"w", "i", "k", "i", "d", "a", "t", "a", " ", "e", "n", "t", "i", "t", "y", " ", "i", "d">>

WikiUrlPrefix == <<"h", "t", "t", "p", "s", ":", "/", "/", "w", "w", "w", ".", "w", "i", "k", "i", "d", "a", "t", "a", ".", "o", "r", "g", "/", "w", "i", "k", "i", "/">>

LegacyPrefix == <<"d", "b", "/">>

\* value.length === 1 ? value[0] : value
Collapse(value) == IF Len(value) = 1 THEN value[1] ELSE Arr(value)


\* the block-list consulted only when there is no allow-list
PassesFilter_AllowWins(k, s) ==
    IF Cardinality(s.allowedProperties) # 0 THEN k \in s.allowedProperties
    ELSE ~(Cardinality(s.blockedProperties) # 0 /\ k \in s.blockedProperties)

\* a non-empty block-list skipping every key
PassesFilter_BlockAll(k, s) ==
    ~ \/ (Cardinality(s.allowedProperties) # 0 /\ k \notin s.allowedProperties)
      \/ Cardinality(s.blockedProperties) # 0

\* the negation of the skip condition of lines 359-366
PassesFilter(k, s) ==
    ~ \/ (Cardinality(s.allowedProperties) # 0 /\ k \notin s.allowedProperties)
      \/ (Cardinality(s.blockedProperties) # 0 /\ k \in s.blockedProperties)

\* lines 356-371: the keys pushed to filteredProperties
FilteredProperties(properties, s) ==
    {k \in DOMAIN properties : PassesFilter(k, s)}

\* lines 358-373: the writes to the local `frontmatter` before the callback
PreWrite(fm, properties, s) ==
    [k \in DOMAIN fm \cup FilteredProperties(properties, s) |->
        IF k \in FilteredProperties(properties, s) THEN Collapse(properties[k])
        ELSE fm[k]]


\* the overwrite setting not consulted
ShouldWrite_NeverOverwrite(fm, k, filtered, s) ==
    /\ k \in filtered
    /\ ~Truthy(Get(fm, k))

\* lines 377-382: whether the callback assigns frontmatter[key]
ShouldWrite(fm, k, filtered, s) ==
    /\ k \in filtered
    /\ \/ s.overwriteExistingProperties
       \/ ~Truthy(Get(fm, k))


\* fetched values appended to a field that already holds a value
MergeProperties_Append(fm, properties, filtered, s) ==
    LET written == {k \in DOMAIN properties : k \in filtered}
    IN [k \in DOMAIN fm \cup written |->
           IF k \notin written THEN fm[k]
           ELSE IF s.overwriteExistingProperties \/ ~Truthy(Get(fm, k))
                THEN Collapse(properties[k])
           ELSE Arr((IF fm[k].t = "array" THEN fm[k].l ELSE <<fm[k]>>)
                    \o properties[k])]

\* lines 376-384: the loop of the callback
MergeProperties(fm, properties, filtered, s) ==
    LET written == {k \in DOMAIN properties : ShouldWrite(fm, k, filtered, s)}
    IN [k \in DOMAIN fm \cup written |->
           IF k \in written THEN Collapse(properties[k]) ELSE fm[k]]


\* the identifier written only on the first import
StampEntityId_IfAbsent(fm, s, id) ==
    [k \in DOMAIN fm \cup {s.entityIdKey} |->
        IF k = s.entityIdKey /\ k \notin DOMAIN fm THEN Str(id) ELSE fm[k]]

\* line 388
StampEntityId(fm, s, id) ==
    [k \in DOMAIN fm \cup {s.entityIdKey} |->
        IF k = s.entityIdKey THEN Str(id) ELSE fm[k]]


\* the frontmatter rebuilt from the fetched mapping alone
MergeCallback_Rebuild(fm, properties, filtered, s, id) ==
    StampEntityId(MergeProperties(<<>>, properties, filtered, s), s, id)

\* lines 375-389: the callback handed to processFrontMatter
MergeCallback(fm, properties, filtered, s, id) ==
    StampEntityId(MergeProperties(fm, properties, filtered, s), s, id)

NoFrontmatter == [present |-> FALSE, fm |-> <<>>]

\* what the metadata cache holds once it has parsed the file
CacheOf(fm) ==
    IF DOMAIN fm = {} THEN NoFrontmatter ELSE [present |-> TRUE, fm |-> fm]

IdleOp ==
    [pc |-> "idle", file |-> "none", id |-> <<>>, alias |-> "none",
     opts |-> <<>>, properties |-> <<>>, filtered |-> {},
     requests |-> <<>>, noId |-> FALSE, chosen |-> FALSE]

\* the GetPropertiesOptions built at lines 345-354
OptionsOf(s) ==
    [ignoreCategories |-> s.ignoreCategories,
     ignoreWikipediaPages |-> s.ignoreWikipediaPages,
     ignoreIDs |-> s.ignoreIDs,
     spaceReplacement |-> s.spaceReplacement,
     internalLinkPrefix |-> s.internalLinkPrefix]

\* the state of the import flows while only the extraction is examined
ImportIdle ==
    /\ settings = <<>>
    /\ doc = <<>>
    /\ cache = <<>>
    /\ ops = <<>>
    /\ hist = <<>>

\* syncEntityToFile up to the request of getProperties: lines 340-354, 242-274
BeginSync(o, f, id) ==
    ops' = [ops EXCEPT ![o] =
               [ops[o] EXCEPT !.pc = "fetching", !.file = f, !.id = id,
                              !.alias = IF cache[f].present THEN "cache" ELSE "fresh",
                              !.opts = OptionsOf(settings'),
                              !.requests = Append(@, "query"),
                              !.chosen = (ops[o].pc = "modal")]]

\* the test of line 463 dropped: the property query is sent whatever the field holds
ImportProperties_QueryAnyway(o, f) ==
    /\ ops[o].pc = "idle"
    /\ LET frontmatter == IF cache[f].present THEN cache[f].fm ELSE <<>>
           raw == Get(frontmatter, settings.entityIdKey)
           entityId == IF raw.t = "string" /\ StartsWith(raw.s, WikiUrlPrefix)
                       THEN SubSeq(raw.s, Len(WikiUrlPrefix) + 1, Len(raw.s))
                       ELSE raw.s
       IN IF raw.t \notin {"string", "undefined", "null"}
          THEN /\ ops' = [ops EXCEPT ![o] = [IdleOp EXCEPT !.pc = "threw", !.file = f]]
               /\ UNCHANGED settings
          ELSE /\ UNCHANGED settings
               /\ ops' = [ops EXCEPT ![o] =
                            [IdleOp EXCEPT !.pc = "fetching", !.file = f, !.id = entityId,
                                           !.alias = IF cache[f].present
                                                     THEN "cache" ELSE "fresh",
                                           !.opts = OptionsOf(settings),
                                           !.noId = raw.t # "string"
                                                    \/ ~StartsWith(entityId, <<"Q">>),
                                           !.requests = <<"query">>]]
    /\ UNCHANGED <<doc, cache, hist>>
    /\ UNCHANGED <<exVars, blVars, seVars>>

\* importProperties, lines 450-480. The modal it opens is given the file's
\* basename and an "input" event: getSuggestions (403-407) calls Entity.search,
\* whose guard (wikidata.ts 202) a basename passes, and the search request is sent
ImportProperties(o, f) ==
    /\ ops[o].pc = "idle"
    /\ LET frontmatter == IF cache[f].present THEN cache[f].fm ELSE <<>>
           raw == Get(frontmatter, settings.entityIdKey)
           entityId == IF raw.t = "string" /\ StartsWith(raw.s, WikiUrlPrefix)
                       THEN SubSeq(raw.s, Len(WikiUrlPrefix) + 1, Len(raw.s))
                       ELSE raw.s
       IN IF raw.t \notin {"string", "undefined", "null"}
          THEN \* entityId.startsWith is not a function
               /\ ops' = [ops EXCEPT ![o] = [IdleOp EXCEPT !.pc = "threw", !.file = f]]
               /\ UNCHANGED settings
          ELSE IF raw.t # "string" \/ ~StartsWith(entityId, <<"Q">>)
          THEN \* the notice, and the search modal opened on the file
               /\ ops' = [ops EXCEPT ![o] = [IdleOp EXCEPT !.pc = "searching",
                                                           !.file = f,
                                                           !.noId = TRUE,
                                                           !.requests = <<"search">>]]
               /\ UNCHANGED settings
          ELSE /\ UNCHANGED settings
               /\ BeginSync(o, f, entityId)
    /\ UNCHANGED <<doc, cache, hist>>
    /\ UNCHANGED <<exVars, blVars, seVars>>

\* the search request of the modal resolves and the suggestions are shown
SuggestionsReturn(o) ==
    /\ ops[o].pc = "searching"
    /\ ops' = [ops EXCEPT ![o].pc = "modal"]
    /\ UNCHANGED <<settings, doc, cache, hist>>
    /\ UNCHANGED <<exVars, blVars, seVars>>

\* the search request of the modal rejects: there is nothing to choose from
SuggestionsFail(o) ==
    /\ ops[o].pc = "searching"
    /\ ops' = [ops EXCEPT ![o].pc = "nothing"]
    /\ UNCHANGED <<settings, doc, cache, hist>>
    /\ UNCHANGED <<exVars, blVars, seVars>>

\* the search results the user can choose from
ItemPool ==
    { [id |-> <<"Q", "5">>, label |-> Human] }

\* onChooseSuggestion of the modal importProperties opened, lines 409-428
ChooseSuggestion(o, item) ==
    /\ ops[o].pc = "modal"
    /\ settings' = IF settings.internalLinkPrefix = LegacyPrefix
                   THEN [settings EXCEPT !.internalLinkPrefix = DbLabel]
                   ELSE settings
    /\ BeginSync(o, ops[o].file, item.id)
    /\ UNCHANGED <<doc, cache, hist>>
    /\ UNCHANGED <<exVars, blVars, seVars>>

\* the response of the query endpoint arrives: lines 274-348, then 356-375
FetchReturn(o, rs) ==
    /\ ops[o].pc = "fetching"
    /\ LET f == ops[o].file
           properties == GetProperties(rs, ops[o].opts)
       IN /\ ops' = [ops EXCEPT ![o].pc = "callback",
                                ![o].properties = properties,
                                ![o].filtered = FilteredProperties(properties, settings)]
          /\ cache' = IF ops[o].alias = "cache"
                      THEN [cache EXCEPT ![f].fm = PreWrite(@, properties, settings)]
                      ELSE cache
    /\ UNCHANGED <<settings, doc, hist>>
    /\ UNCHANGED <<exVars, blVars, seVars>>

\* the failure taken for an empty response: the callback runs all the same
\* and the file is written
FetchFail_StampAnyway(o) ==
    /\ ops[o].pc = "fetching"
    /\ LET f == ops[o].file
           post == MergeCallback(doc[f], <<>>, {}, settings, ops[o].id)
       IN /\ doc' = [doc EXCEPT ![f] = post]
          /\ hist' = Append(hist,
                 [op |-> o, file |-> f, id |-> ops[o].id, pre |-> doc[f],
                  post |-> post, properties |-> <<>>, filtered |-> {},
                  inflight |-> {}])
    /\ ops' = [ops EXCEPT ![o].pc = "failed"]
    /\ UNCHANGED <<settings, cache>>
    /\ UNCHANGED <<exVars, blVars, seVars>>

\* getProperties rejects (the request fails or the response cannot be
\* processed): the catch of lines 481-485 or 433-435
FetchFail(o) ==
    /\ ops[o].pc = "fetching"
    /\ ops' = [ops EXCEPT ![o].pc = "failed"]
    /\ UNCHANGED <<settings, doc, cache, hist>>
    /\ UNCHANGED <<exVars, blVars, seVars>>

\* the operations other than o that are suspended at one of their awaits
InFlight(o) == { p \in Ops \ {o} : ops[p].pc \in {"fetching", "callback"} }

\* the callback handed the frontmatter the metadata cache shows, not the file's
Callback_FromCache(o) ==
    /\ ops[o].pc = "callback"
    /\ LET f == ops[o].file
           post == MergeCallback(IF cache[f].present THEN cache[f].fm ELSE <<>>,
                                 ops[o].properties, ops[o].filtered,
                                 settings, ops[o].id)
       IN /\ doc' = [doc EXCEPT ![f] = post]
          /\ hist' = Append(hist,
                 [op |-> o, file |-> f, id |-> ops[o].id, pre |-> doc[f],
                  post |-> post, properties |-> ops[o].properties,
                  filtered |-> ops[o].filtered, inflight |-> InFlight(o)])
    /\ ops' = [ops EXCEPT ![o].pc = "done"]
    /\ UNCHANGED <<settings, cache>>
    /\ UNCHANGED <<exVars, blVars, seVars>>

\* processFrontMatter runs the callback on the file's frontmatter and saves it
Callback(o) ==
    /\ ops[o].pc = "callback"
    /\ LET f == ops[o].file
           post == MergeCallback(doc[f], ops[o].properties, ops[o].filtered,
                                 settings, ops[o].id)
       IN /\ doc' = [doc EXCEPT ![f] = post]
          /\ hist' = Append(hist,
                 [op |-> o, file |-> f, id |-> ops[o].id, pre |-> doc[f],
                  post |-> post, properties |-> ops[o].properties,
                  filtered |-> ops[o].filtered, inflight |-> InFlight(o)])
    /\ ops' = [ops EXCEPT ![o].pc = "done"]
    /\ UNCHANGED <<settings, cache>>
    /\ UNCHANGED <<exVars, blVars, seVars>>

\* the metadata cache re-reads a file whose frontmatter it does not show;
\* the object an operation obtained at line 340 is then no longer the cache's
CacheRefresh(f) ==
    /\ cache[f] # CacheOf(doc[f])
    /\ cache' = [cache EXCEPT ![f] = CacheOf(doc[f])]
    /\ ops' = [o \in Ops |->
                 IF ops[o].file = f /\ ops[o].alias = "cache"
                 THEN [ops[o] EXCEPT !.alias = "detached"]
                 ELSE ops[o]]
    /\ UNCHANGED <<settings, doc, hist>>
    /\ UNCHANGED <<exVars, blVars, seVars>>

-----------------------------------------------------------------------------
(* The settings, documents and endpoint responses the flows are checked on *)

KeyP == <<"p">>

KeyQ == <<"q">>

KeyR == <<"r">>

Q42 == <<"Q", "4", "2">>

SettingsOf(ik, lp, ow, allowed, blocked) ==
    [entityIdKey |-> ik, internalLinkPrefix |-> lp, spaceReplacement |-> <<>>,
     ignoreCategories |-> TRUE, ignoreWikipediaPages |-> TRUE,
     ignoreIDs |-> TRUE, overwriteExistingProperties |-> ow,
     allowedProperties |-> allowed, blockedProperties |-> blocked]

SettingsPool ==
    { SettingsOf(ik, DbLabel, ow, ab[1], ab[2]) :
         ik \in {DefaultEntityIdKey, KeyQ}, ow \in BOOLEAN,
         ab \in { <<{}, {}>>, <<{KeyP}, {}>>, <<{}, {KeyP}>>,
                  <<{KeyP, KeyQ}, {KeyP}>>, <<{KeyP, KeyQ}, {KeyQ}>>,
                  <<{KeyP}, {KeyQ}>> } }
    \cup { SettingsOf(DefaultEntityIdKey, LegacyPrefix, ow, {}, {}) : ow \in BOOLEAN }

\* the frontmatter a document can start with, ik being the entityIdKey
DocPool(ik) ==
    { <<>>,
      (ik :> Str(Q42)),
      (ik :> Str(Q42)) @@ (KeyP :> Num(0, 0)),
      (ik :> Str(Q42)) @@ (KeyP :> Str(<<"o", "l", "d">>)) @@ (KeyR :> Bool(FALSE)),
      (ik :> Str(WikiUrlPrefix \o Q42)) @@ (KeyP :> Null) @@ (KeyR :> Str(<<"k">>)),
      (ik :> Num(42, 0)) }

\* the second document starts from fewer cases
OtherDocPool(ik) ==
    { (ik :> Str(Q42)) @@ (KeyP :> Str(<<"o", "l", "d">>)) @@ (KeyR :> Bool(FALSE)) }

ResponsePool ==
    { <<>>,
      <<Row(KeyP, <<"7">>, Str(<<"7">>), XsdInteger, Null)>>,
      <<Row(KeyP, <<"7">>, Str(<<"7">>), XsdInteger, Null),
        Row(KeyP, EntityQ5, Str(Human), NoType, Null)>>,
      <<Row(KeyQ, <<"0">>, Str(<<"0">>), XsdInteger, Null),
        Row(KeyP, <<"x">>, Str(<<"x">>), XsdString, Null)>> }

ExtractIdle ==
    /\ rows = <<>>
    /\ opts = <<>>
    /\ idx = 0
    /\ ret = <<>>
    /\ key = <<>>
    /\ toAdd = Null
    /\ outcome = "none"

Init ==
    /\ settings \in SettingsPool
    /\ doc \in { d \in [Files -> DocPool(settings.entityIdKey)] :
                    d["b.md"] \in OtherDocPool(settings.entityIdKey) }
    /\ cache = [f \in Files |-> CacheOf(doc[f])]
    /\ ops = [o \in Ops |-> IdleOp]
    /\ hist = <<>>
    /\ ExtractIdle
    /\ LinkIdle
    /\ SearchIdle

Next ==
    \/ \E o \in Ops, f \in Files : ImportProperties(o, f)
    \/ \E o \in Ops : SuggestionsReturn(o)
    \/ \E o \in Ops : SuggestionsFail(o)
    \/ \E o \in Ops, item \in ItemPool : ChooseSuggestion(o, item)
    \/ \E o \in Ops, rs \in ResponsePool : FetchReturn(o, rs)
    \/ \E o \in Ops : FetchFail(o)
    \/ \E o \in Ops : Callback(o)
    \/ \E f \in Files : CacheRefresh(f)

Spec == Init /\ [][Next]_vars

-----------------------------------------------------------------------------
(* The extraction on its own *)

InitExtract ==
    /\ rows \in RowSeqs
    /\ opts \in OptsPool
    /\ idx = 0
    /\ ret = <<>>
    /\ key = <<>>
    /\ toAdd = Null
    /\ outcome = "none"
    /\ ImportIdle
    /\ LinkIdle
    /\ SearchIdle

\* one iteration of results.forEach
ForEachRow ==
    /\ idx < Len(rows)
    /\ LET p == ProcessRow(rows[idx + 1], opts, ret)
       IN /\ ret' = p.ret
          /\ key' = p.key
          /\ toAdd' = p.toAdd
          /\ outcome' = p.outcome
    /\ idx' = idx + 1
    /\ UNCHANGED <<rows, opts>>
    /\ UNCHANGED <<imVars, blVars, seVars>>

NextExtract == ForEachRow

SpecExtract == InitExtract /\ [][NextExtract]_vars

-----------------------------------------------------------------------------
(* Properties of the extraction, checked under SpecExtract *)

\* C1: every key of the mapping getProperties builds maps to a non-empty
\* list, after every row and for every combination of options
C1_NonEmptyLists == \A k \in DOMAIN ret : Len(ret[k]) >= 1

\* a finished extraction that stored values and whose last row was dropped
C1_StoredAndDropped ==
    /\ idx = Len(rows)
    /\ idx >= 2
    /\ DOMAIN ret # {}
    /\ outcome = "null"

\* C9: a row no filter drops gets the value of the first matching rule:
\* normalized value, dateTime, decimal, integer, string/langString,
\* cross-reference, else the resolved label; a null value drops the row
C9_ResolutionOrder ==
    (idx > 0 /\ outcome \notin {"category", "wikipedia", "id"}) =>
        LET r == rows[idx]
            before == GetProperties(SubSeq(rows, 1, idx - 1), opts)
            v == IF r.normalizedValue # Null THEN r.normalizedValue
                 ELSE IF r.valueType = XsdDateTime THEN Str(r.value)
                 ELSE IF r.valueType = XsdDecimal THEN ParseFloat(r.value)
                 ELSE IF r.valueType = XsdInteger THEN ParseInt(r.value)
                 ELSE IF r.valueType \in {XsdString, RdfLangString} THEN Str(r.value)
                 ELSE IF MatchesQDigits(r.value) /\ r.valueLabel # Null
                      THEN Str(<<"[", "[">>
                               \o buildLink(opts.internalLinkPrefix, r.valueLabel.s,
                                            TrailingDigits(r.value))
                               \o <<"]", "]">>)
                 ELSE r.valueLabel
        IN IF v = Null
           THEN outcome = "null" /\ ret = before
           ELSE /\ outcome = "added"
                /\ toAdd = v
                /\ key \in DOMAIN ret
                /\ ret[key][Len(ret[key])] = v

\* a decimal row with a normalized value: rule 1 applied, not rule 3
C9_NormalizedBeatsDecimal ==
    /\ idx > 0
    /\ rows[idx].normalizedValue # Null
    /\ rows[idx].valueType = XsdDecimal
    /\ outcome = "added"
    /\ toAdd = rows[idx].normalizedValue

\* C10: a row without datatype and normalized value, whose raw value ends in
\* Q<digits> and whose label is present, appends "[[" + buildLink(template,
\* label, the digits after the Q) + "]]"; the row .../Q5 "human" under the
\* template db/${label} gives {"instance of": ["[[db/human]]"]}
C10_CrossReference ==
    /\ (idx > 0 /\ outcome \notin {"category", "wikipedia", "id"}) =>
          LET r == rows[idx]
              n == Len(r.value)
          IN \A d \in 1..(n - 1) :
                (/\ r.valueType = NoType
                 /\ r.normalizedValue = Null
                 /\ r.valueLabel # Null
                 /\ r.value[n - d] = "Q"
                 /\ \A i \in (n - d + 1)..n : r.value[i] \in Digits)
                => /\ outcome = "added"
                   /\ ret[key][Len(ret[key])] =
                        Str(<<"[", "[">>
                            \o buildLink(opts.internalLinkPrefix, r.valueLabel.s,
                                         SubSeq(r.value, n - d + 1, n))
                            \o <<"]", "]">>)
    /\ (/\ idx = 1
        /\ rows = <<Row(InstanceOf, EntityQ5, Str(Human), NoType, Null)>>
        /\ opts.internalLinkPrefix = DbLabel
        /\ opts.spaceReplacement = <<>>)
       => ret = (InstanceOf :>
                   <<Str(<<"[", "[", "d", "b", "/", "h", "u", "m", "a", "n", "]", "]">>)>>)

\* the end-to-end scenario has run: entity/Q5 "human" under db/${label}
C10_InstanceOfHuman ==
    /\ idx = 1
    /\ rows = <<Row(InstanceOf, EntityQ5, Str(Human), NoType, Null)>>
    /\ opts.internalLinkPrefix = DbLabel
    /\ opts.ignoreCategories
    /\ outcome = "added"

-----------------------------------------------------------------------------
(* Properties of the merge, checked under Spec. hist[Len(hist)] is the     *)
(* latest run of the callback: pre and post are the document's frontmatter *)
(* before and after it.                                                    *)

\* C2: with overwrite disabled, a fetched key that passes the filters is
\* written only when the document has no such field; an existing field keeps
\* its value whatever it is (stated for the keys other than the entityIdKey,
\* whose field line 388 sets)
C2_ExistingFieldKept ==
    (Len(hist) > 0 /\ ~settings.overwriteExistingProperties) =>
        LET h == hist[Len(hist)]
        IN \A k \in DOMAIN h.properties :
              (/\ k # settings.entityIdKey
               /\ settings.allowedProperties # {} => k \in settings.allowedProperties
               /\ settings.blockedProperties # {} => k \notin settings.blockedProperties)
              => IF k \in DOMAIN h.pre THEN h.post[k] = h.pre[k]
                 ELSE h.post[k] = Collapse(h.properties[k])

\* C3: after the callback the entityIdKey field is the entity's identifier
C3_IdentifierStamped ==
    Len(hist) > 0 =>
        LET h == hist[Len(hist)]
        IN /\ doc[h.file] = h.post
           /\ settings.entityIdKey \in DOMAIN h.post
           /\ h.post[settings.entityIdKey] = Str(h.id)

\* overwrite enabled, the fetched mapping has the entityIdKey itself, it
\* passes the filters, and the field held another value before
C3_FetchedKeyIsIdKey ==
    /\ Len(hist) > 0
    /\ settings.overwriteExistingProperties
    /\ LET h == hist[Len(hist)]
       IN /\ settings.entityIdKey \in h.filtered
          /\ Get(h.pre, settings.entityIdKey) # Str(h.id)
          /\ ops[h.op].pc = "done"

\* C4: every field whose key is neither a fetched key that passed the
\* filters nor the entityIdKey keeps its value, and no field is removed
C4_UnrelatedFieldsKept ==
    Len(hist) > 0 =>
        LET h == hist[Len(hist)]
            passed == {k \in DOMAIN h.properties :
                          /\ settings.allowedProperties # {}
                                => k \in settings.allowedProperties
                          /\ settings.blockedProperties # {}
                                => k \notin settings.blockedProperties}
        IN /\ DOMAIN h.pre \subseteq DOMAIN h.post
           /\ \A k \in DOMAIN h.pre :
                 (k \notin passed /\ k # settings.entityIdKey)
                 => h.post[k] = h.pre[k]

\* overwrite enabled: a fetched key was written, a fetched key the filters
\* stopped and an unrelated field were in the document
C4_WrittenBesideKept ==
    /\ Len(hist) > 0
    /\ settings.overwriteExistingProperties
    /\ LET h == hist[Len(hist)]
       IN /\ KeyR \in DOMAIN h.pre
          /\ KeyP \in DOMAIN h.pre
          /\ KeyP \in DOMAIN h.properties
          /\ KeyP \notin h.filtered
          /\ h.filtered # {}

C7_MergeIdempotent ==
    ~settings.overwriteExistingProperties =>
        /\ Len(hist) > 0 =>
              LET h == hist[Len(hist)]
              IN MergeCallback(h.post, h.properties,
                               FilteredProperties(h.properties, settings),
                               settings, h.id) = h.post
        /\ (/\ Len(hist) = 2
            /\ hist[1].file = hist[2].file
            /\ hist[1].id = hist[2].id
            /\ hist[1].properties = hist[2].properties)
           => hist[2].post = hist[1].post

\* two imports of the same mapping into the same document, the first of
\* which replaced a field
C7_SecondRunAfterWrite ==
    /\ ~settings.overwriteExistingProperties
    /\ Len(hist) = 2
    /\ hist[1].file = hist[2].file
    /\ hist[1].id = hist[2].id
    /\ hist[1].properties = hist[2].properties
    /\ hist[2].pre = hist[1].post
    /\ \E k \in hist[1].filtered :
          k # settings.entityIdKey /\ Get(hist[1].post, k) # Get(hist[1].pre, k)

\* C8 as stated: with overwrite enabled every fetched key that passes the
\* filters holds the fetched value after the merge
C8_OverwriteWritesFetched ==
    (Len(hist) > 0 /\ settings.overwriteExistingProperties) =>
        LET h == hist[Len(hist)]
        IN \A k \in DOMAIN h.properties :
              (/\ settings.allowedProperties # {} => k \in settings.allowedProperties
               /\ settings.blockedProperties # {} => k \notin settings.blockedProperties)
              => /\ k \in DOMAIN h.post
                 /\ h.post[k] = IF Len(h.properties[k]) = 1 THEN h.properties[k][1]
                                ELSE Arr(h.properties[k])

\* C8 amended: with overwrite enabled every fetched key that passes the
\* filters and is not the entityIdKey holds the fetched value after the
\* merge, the single element of a one-element list, else the whole list
C8_OverwriteWritesFetchedButIdKey ==
    (Len(hist) > 0 /\ settings.overwriteExistingProperties) =>
        LET h == hist[Len(hist)]
        IN \A k \in DOMAIN h.properties :
              (/\ k # settings.entityIdKey
               /\ settings.allowedProperties # {} => k \in settings.allowedProperties
               /\ settings.blockedProperties # {} => k \notin settings.blockedProperties)
              => /\ k \in DOMAIN h.post
                 /\ h.post[k] = IF Len(h.properties[k]) = 1 THEN h.properties[k][1]
                                ELSE Arr(h.properties[k])

\* a two-element list written over an existing value, and a single value
\* written to a document that had no such field
C8_ListOverExisting ==
    /\ Len(hist) = 2
    /\ settings.overwriteExistingProperties
    /\ \E i \in 1..2 :
          /\ KeyP \in hist[i].filtered
          /\ Len(hist[i].properties[KeyP]) = 2
          /\ Truthy(Get(hist[i].pre, KeyP))
          /\ hist[i].post[KeyP].t = "array"
    /\ LET h == hist[Len(hist)]
       IN \E k \in h.filtered :
             /\ k # settings.entityIdKey
             /\ k \notin DOMAIN h.pre
             /\ Len(h.properties[k]) = 1

-----------------------------------------------------------------------------
(* More properties of the extraction, checked under SpecExtract *)

\* C11: with ignoreIDs enabled, a row whose property name holds the whole
\* word ID is dropped and adds nothing to the mapping, whatever its other
\* cells are
C11_IdRowsDropped ==
    (idx > 0 /\ opts.ignoreIDs /\ MatchesWordID(rows[idx].propertyLabel)) =>
        /\ outcome # "added"
        /\ ret = GetProperties(SubSeq(rows, 1, idx - 1), opts)

C13_ListsFollowRowOrder ==
    LET out(i) == ProcessRow(rows[i], opts, <<>>)
        kept == {i \in 1..idx : out(i).outcome = "added"}
        RECURSIVE ValuesOf(_, _)
        ValuesOf(k, i) ==
            IF i > idx THEN <<>>
            ELSE IF i \in kept /\ out(i).key = k
                 THEN <<out(i).toAdd>> \o ValuesOf(k, i + 1)
            ELSE ValuesOf(k, i + 1)
        RECURSIVE Total(_)
        Total(ks) ==
            IF ks = {} THEN 0
            ELSE LET k == CHOOSE x \in ks : TRUE
                 IN Len(ret[k]) + Total(ks \ {k})
    IN /\ DOMAIN ret = {out(i).key : i \in kept}
       /\ \A k \in DOMAIN ret : ret[k] = ValuesOf(k, 1)
       /\ Total(DOMAIN ret) = Cardinality(kept)

\* two rows with different property names stored under one rewritten key
C13_TwoNamesOneKey ==
    /\ idx = 2
    /\ rows[1].propertyLabel # rows[2].propertyLabel
    /\ outcome = "added"
    /\ Len(ret[key]) = 2
    /\ ret[key][1] # ret[key][2]

-----------------------------------------------------------------------------
(* Entity.buildLink on its own *)

DbLabelIdMd == <<"d", "b", "/", "$", "{", "l", "a", "b", "e", "l", "}", "-", "$", "{", "i", "d", "}", ".", "m", "d">>

TemplatePool ==
    { DbLabel, DbLabelId, DbLabelIdMd, LegacyPrefix, IdPlaceholder,
      <<"$", "{", "l", "a", "b", "e", "l", "}", "/", "$", "{", "l", "a", "b", "e", "l", "}">> }

LabelPool ==
    { Human, <<"A", "/", "B", ":", "C">>, <<"a", "/", "b", "/", "c">>, <<"*", "#", "?", "<", ">", "\"">>,
      <<"$", "&">>, <<"a", "$", "$", "b">>, IdPlaceholder, <<>> }

IdPool == { <<"5">>, <<"4", "2">>, <<"$", "'">> }

InitLink ==
    /\ blArgs \in [link : TemplatePool, label : LabelPool, id : IdPool]
    /\ blLabel = blArgs.label
    /\ blLink = blArgs.link
    /\ blPc = "called"
    /\ ExtractIdle
    /\ ImportIdle
    /\ SearchIdle

\* line 235
SanitizeLabel ==
    /\ blPc = "called"
    /\ blLabel' = replaceCharacters(blLabel, IllegalChars, <<"_">>)
    /\ blPc' = "sanitized"
    /\ UNCHANGED <<blArgs, blLink>>
    /\ UNCHANGED <<exVars, imVars, seVars>>

\* lines 236-237
SubstituteAndReturn ==
    /\ blPc = "sanitized"
    /\ blLink' = substitutePlaceholders(blLink, blLabel, blArgs.id)
    /\ blPc' = "returned"
    /\ UNCHANGED <<blArgs, blLabel>>
    /\ UNCHANGED <<exVars, imVars, seVars>>

NextLink == SanitizeLabel \/ SubstituteAndReturn

SpecLink == InitLink /\ [][NextLink]_vars

\* C14: buildLink returns the template with every ${label} replaced by the
\* sanitized label and every ${id} of the template replaced by the id, the
\* inserted texts appearing character for character
C14_LiteralSubstitution ==
    blPc = "returned" =>
        LET t == blArgs.link
            RECURSIVE Subst(_)
            Subst(i) ==
                IF i > Len(t) THEN <<>>
                ELSE IF IsMatchAt(t, LabelPlaceholder, i)
                     THEN blLabel \o Subst(i + Len(LabelPlaceholder))
                ELSE IF IsMatchAt(t, IdPlaceholder, i)
                     THEN blArgs.id \o Subst(i + Len(IdPlaceholder))
                ELSE <<t[i]>> \o Subst(i + 1)
        IN blLink = Subst(1)

\* C15: the sanitization replaces each * / : # ? < > " of the label by an
\* underscore and leaves every other character and the length unchanged;
\* buildLink("db/${label}-${id}.md", "A/B:C", "42") is "db/A_B_C-42.md"
C15_LabelSanitized ==
    /\ blPc \in {"sanitized", "returned"} =>
          /\ Len(blLabel) = Len(blArgs.label)
          /\ \A i \in 1..Len(blLabel) :
                blLabel[i] = IF blArgs.label[i] \in {"*", "/", ":", "#", "?", "<", ">", "\""}
                             THEN "_" ELSE blArgs.label[i]
          /\ \A i \in 1..Len(blLabel) :
                blLabel[i] \notin {"*", "/", ":", "#", "?", "<", ">", "\""}
    /\ (/\ blPc = "returned"
        /\ blArgs = [link |-> DbLabelIdMd, label |-> <<"A", "/", "B", ":", "C">>,
                     id |-> <<"4", "2">>])
       => blLink = <<"d", "b", "/", "A", "_", "B", "_", "C", "-", "4", "2", ".", "m", "d">>

\* the example call has returned, its label sanitized to A_B_C
C15_ExampleReturned ==
    /\ blPc = "returned"
    /\ blArgs = [link |-> DbLabelIdMd, label |-> <<"A", "/", "B", ":", "C">>,
                 id |-> <<"4", "2">>]
    /\ blLabel = <<"A", "_", "B", "_", "C">>

-----------------------------------------------------------------------------
(* Properties of the failure paths of an import, checked under Spec *)

\* C16: an import whose extraction fails applies nothing: the failing step
\* leaves every document, the cache and the record of writes as they were,
\* the failed operation never runs its callback, and it stays failed
C16_FailedImportAppliesNothing ==
    /\ [](\A o \in Ops : ops[o].pc = "failed" =>
              \A i \in 1..Len(hist) : hist[i].op # o)
    /\ [][\A o \in Ops :
             /\ (ops[o].pc = "fetching" /\ ops'[o].pc = "failed") =>
                    (doc' = doc /\ cache' = cache /\ hist' = hist)
             /\ ops[o].pc = "failed" => ops'[o].pc = "failed"]_vars

\* an import through the modal failed on a document that has no identifier
\* field, and the document still has none
C16_FailedWithoutIdentifier ==
    \E o \in Ops :
        /\ ops[o].pc = "failed"
        /\ ops[o].noId
        /\ settings.entityIdKey \notin DOMAIN doc[ops[o].file]

-----------------------------------------------------------------------------
(* Properties of interleaved imports, checked under Spec *)

\* C23: whatever the interleaving of two imports, every document is the
\* result of the merges run one after the other in the order of their
\* callbacks: each callback merges its own operation's properties into what
\* the previous callback on that document left, a document changes by
\* nothing else, and a finished import has run its merge exactly once
C23_MergesSerialised ==
    /\ [](/\ \A i \in 1..Len(hist) :
                LET h == hist[i]
                    prev == { j \in 1..(i - 1) : hist[j].file = h.file }
                IN /\ h.post = MergeCallback(h.pre, h.properties, h.filtered,
                                             settings, h.id)
                   /\ prev # {} =>
                         h.pre = hist[CHOOSE j \in prev :
                                         \A k \in prev : k <= j].post
          /\ \A f \in Files :
                LET on == { j \in 1..Len(hist) : hist[j].file = f }
                IN on # {} =>
                      doc[f] = hist[CHOOSE j \in on : \A k \in on : k <= j].post
          /\ \A o \in Ops :
                ops[o].pc = "done" =>
                    /\ Cardinality({ j \in 1..Len(hist) : hist[j].op = o }) = 1
                    /\ \A j \in 1..Len(hist) :
                          hist[j].op = o =>
                             /\ hist[j].properties = ops[o].properties
                             /\ hist[j].file = ops[o].file)
    /\ [][\A f \in Files :
             doc'[f] # doc[f] =>
                /\ Len(hist') = Len(hist) + 1
                /\ hist'[Len(hist')].file = f
                /\ hist'[Len(hist')].pre = doc[f]
                /\ hist'[Len(hist')].post = doc'[f]]_vars

\* two imports of one document whose callbacks both wrote, the second
\* operation being suspended while the callback of the first ran
C23_InterleavedOnOneDocument ==
    /\ Len(hist) = 2
    /\ hist[1].file = hist[2].file
    /\ hist[2].op \in hist[1].inflight
    /\ hist[1].properties # hist[2].properties
    /\ hist[1].post # hist[1].pre
    /\ hist[2].post # hist[2].pre

\* C24: an import never modifies the frontmatter the metadata cache holds:
\* the cached mapping of a file changes only when the cache re-reads the file
C24_CacheNotModified ==
    [][\A f \in Files :
          cache'[f] # cache[f] => cache'[f] = CacheOf(doc[f])]_vars

\* C25: no import builds a cross-reference from the legacy template "db/":
\* no value an extraction returned is the link "[[db/]]"
C25_NoLegacyLink ==
    \A o \in Ops :
        \A k \in DOMAIN ops[o].properties :
            \A i \in 1..Len(ops[o].properties[k]) :
                ops[o].properties[k][i] # Str(<<"[", "[">> \o LegacyPrefix \o <<"]", "]">>)

-----------------------------------------------------------------------------
(* Entity.search on its own. The language option "en,fr" is the list of    *)
(* its codes <<"en", "fr">>; the request carries the option as it is.      *)

Douglas == <<"D", "o", "u", "g", "l", "a", "s">>

Q1 == <<"Q", "1">>

Q2 == <<"Q", "2">>

QueryPool == { Undefined, Null, Str(<<>>), Str(<<"x">>), Str(Douglas), Str(Q1) }

LanguagePool == { <<"en">>, <<"fr">>, <<"en", "fr">>, <<"fr", "en">> }

Entry(id, label, description) ==
    ("id" :> Str(id)) @@ ("label" :> Str(label)) @@ ("description" :> Str(description))

\* the payloads of the search endpoint: response.json
PayloadPool ==
    { ("search" :> <<>>),
      ("search" :> <<Entry(Q1, Douglas, <<"e", "n">>)>>),
      ("search" :> <<Entry(Q1, Douglas, <<"e", "n">>), Entry(Q2, <<"x">>, <<"e", "n">>)>>),
      ("search" :> <<Entry(Q2, <<"x">>, <<"f", "r">>), Entry(Q1, Douglas, <<"f", "r">>)>>),
      ("search" :> <<Entry(Q1, Douglas, <<"e", "n">>), Entry(Q1, Douglas, <<"f", "r">>)>>),
      ("search" :> <<("label" :> Str(Douglas)) @@ ("match" :> Str(<<"x">>))>>),
      ("error" :> <<("code" :> Str(<<"b", "a", "d", "v", "a", "l", "u", "e">>))>>) }

InitSearch ==
    /\ seQuery \in QueryPool
    /\ seLang \in LanguagePool
    /\ seRequests = <<>>
    /\ seResult = Threw("none")
    /\ sePc = "called"
    /\ ExtractIdle
    /\ ImportIdle
    /\ LinkIdle

\* the early return of the guard dropped
SearchCall_NoGuard ==
    /\ sePc = "called"
    /\ seRequests' = Append(seRequests, [language |-> seLang, search |-> seQuery])
    /\ sePc' = "awaiting"
    /\ UNCHANGED <<seQuery, seLang, seResult>>
    /\ UNCHANGED <<exVars, imVars, blVars>>

\* lines 201-208: the guard, the url and the call of requestUrl
SearchCall ==
    /\ sePc = "called"
    /\ IF ~Truthy(seQuery) \/ Len(seQuery.s) = 0
       THEN /\ seResult' = Returned(<<>>)
            /\ sePc' = "returned"
            /\ UNCHANGED seRequests
       ELSE /\ seRequests' = Append(seRequests,
                                    [language |-> seLang, search |-> seQuery])
            /\ sePc' = "awaiting"
            /\ UNCHANGED seResult
    /\ UNCHANGED <<seQuery, seLang>>
    /\ UNCHANGED <<exVars, imVars, blVars>>

\* lines 208-210: requestUrl resolves with a payload
SearchResponse(json) ==
    /\ sePc = "awaiting"
    /\ IF "search" \in DOMAIN json
       THEN /\ seResult' = Returned(MapFromJson(json["search"]))
            /\ sePc' = "returned"
       ELSE \* json.search is undefined: .map throws a TypeError
            /\ seResult' = Threw("TypeError")
            /\ sePc' = "threw"
    /\ UNCHANGED <<seQuery, seLang, seRequests>>
    /\ UNCHANGED <<exVars, imVars, blVars>>

\* line 208: requestUrl rejects, and so does search
SearchReject ==
    /\ sePc = "awaiting"
    /\ seResult' = Threw("request failed")
    /\ sePc' = "threw"
    /\ UNCHANGED <<seQuery, seLang, seRequests>>
    /\ UNCHANGED <<exVars, imVars, blVars>>

NextSearch ==
    \/ SearchCall
    \/ \E json \in PayloadPool : SearchResponse(json)
    \/ SearchReject

SpecSearch == InitSearch /\ [][NextSearch]_vars

\* C18: the list a search across several language codes returns holds each
\* entity identifier at most once
C18_IdentifiersUnique ==
    (sePc = "returned" /\ Len(seLang) > 1) =>
        \A i, j \in 1..Len(seResult.list) :
            seResult.list[i].id = seResult.list[j].id => i = j

\* C19: one request per language code, and a failed lookup never makes the
\* search fail: no error reaches the caller
C19_FailedLookupSkipped ==
    /\ sePc \in {"awaiting", "returned", "threw"} /\ Truthy(seQuery)
          => Len(seRequests) = Len(seLang)
    /\ sePc # "threw"

\* C20: a search with an empty or absent query returns the empty list and
\* sends no request, whatever the language option
C20_EmptyQueryNoRequest ==
    (~Truthy(seQuery) /\ sePc # "called") =>
        /\ sePc = "returned"
        /\ seResult = Returned(<<>>)
        /\ seRequests = <<>>

\* the search of the empty text under two language codes has returned
C20_EmptySearched ==
    /\ seQuery = Str(<<>>)
    /\ seLang = <<"en", "fr">>
    /\ sePc = "returned"

\* C21: an entry of the payload that lacks the identifier is rejected when it
\* is converted: the list a search returns holds no Entity whose id is missing
C21_MissingIdRejected ==
    sePc = "returned" =>
        \A i \in 1..Len(seResult.list) :
            seResult.list[i].id \notin {Undefined, Null}

-----------------------------------------------------------------------------
(* The order of the ID filter and the rewrite, checked under SpecExtract *)

\* C22: with ignoreIDs enabled, a row that reaches the ID filter is dropped by
\* it exactly when its name, as it is before the spaceReplacement rewrite,
\* holds the whole word ID
C22_IdFilterOnOriginalName ==
    (idx > 0 /\ opts.ignoreIDs /\ outcome \notin {"category", "wikipedia"}) =>
        (outcome = "id" <=> MatchesWordID(rows[idx].propertyLabel))

====
